---- MODULE Spec2Model ----
(***************************************************************************)
(* Model of src/helper/HttpSessionManager.py: HTTPSessionManager, the      *)
(* session it builds, and RateLimitedAdapter.send driving one logical      *)
(* request through requests' HTTPAdapter.send and urllib3's urlopen loop   *)
(* under the Retry policy that setup_session configures.                   *)
(*                                                                         *)
(* One transport attempt is one step: the server (the environment) picks   *)
(* the outcome of the attempt, and the step carries out everything the     *)
(* code does with it up to the next attempt or the end of the request.     *)
(* Seconds are integers; header values are sequences of characters.        *)
(***************************************************************************)
EXTENDS Integers, Sequences, FiniteSets, TLC

\* ------------------------------------------------------------------ bounds
MaxRetries == 2          \* total_retries ranges over 0..MaxRetries and the default
MaxSessions == 2         \* sessions created on one manager
DateLead == 3            \* seconds from the early clock reading to HttpDate
HttpDateEpoch == 1445412480   \* the instant HttpDate names, in epoch seconds
BigBackoffFactor == 64   \* a backoff_factor large enough to reach the backoff cap

\* ------------------------------------------------- constants of the program
DefaultTotalRetries == 5
DefaultBackoffFactor == 1
DEFAULT_BACKOFF_MAX == 120
RETRY_AFTER_STATUS_CODES == {413, 429, 503}
allowed_methods == {"HEAD", "GET", "OPTIONS"}
DefaultStatusForcelist == {429, 500, 502, 503, 504}

\* Python's None where an integer is expected, and the exceptions a parse
\* can end in; all distinct from every parsed number of seconds (>= 0).
None == -1
ValueError == -2
InvalidHeader == -3

\* ------------------------------------------------------------ text helpers
DecimalDigits == {"0", "1", "2", "3", "4", "5", "6", "7", "8", "9"}
\* str.isdigit() is also true of digit characters that int() rejects, such
\* as SUPERSCRIPT TWO (U+00B2, a Latin-1 character a header can carry).
SuperscriptTwo == "sup2"
UnicodeDigits == DecimalDigits \cup {SuperscriptTwo}
Whitespace == {" "}

DigitVal(c) ==
    CASE c = "0" -> 0 [] c = "1" -> 1 [] c = "2" -> 2 [] c = "3" -> 3
      [] c = "4" -> 4 [] c = "5" -> 5 [] c = "6" -> 6 [] c = "7" -> 7
      [] c = "8" -> 8 [] c = "9" -> 9

isdigit(s) == Len(s) > 0 /\ \A i \in 1..Len(s) : s[i] \in UnicodeDigits

RECURSIVE lstrip(_)
lstrip(s) == IF Len(s) > 0 /\ Head(s) \in Whitespace THEN lstrip(Tail(s)) ELSE s

RECURSIVE rstrip(_)
rstrip(s) ==
    IF Len(s) > 0 /\ s[Len(s)] \in Whitespace
    THEN rstrip(SubSeq(s, 1, Len(s) - 1)) ELSE s

strip(s) == rstrip(lstrip(s))

RECURSIVE DecimalValue(_)
DecimalValue(s) ==
    IF Len(s) = 0 THEN 0
    ELSE 10 * DecimalValue(SubSeq(s, 1, Len(s) - 1)) + DigitVal(s[Len(s)])

\* int(s) for a string without sign: surrounding whitespace is ignored, the
\* rest must be decimal digits, anything else raises ValueError.
int(s) ==
    LET t == strip(s) IN
    IF Len(t) > 0 /\ \A i \in 1..Len(t) : t[i] \in DecimalDigits
    THEN DecimalValue(t) ELSE ValueError

\* re.match(r"^\s*[0-9]+\s*$", s)
MatchesDeltaSeconds(s) ==
    LET t == strip(s) IN Len(t) > 0 /\ \A i \in 1..Len(t) : t[i] \in DecimalDigits

\* "Wed, 21 Oct 2015 07:28:00 GMT"
HttpDate ==
    << "W", "e", "d", ",", " ", "2", "1", " ", "O", "c", "t", " ",
       "2", "0", "1", "5", " ", "0", "7", ":", "2", "8", ":", "0", "0",
       " ", "G", "M", "T" >>

\* email.utils.parsedate_tz followed by mktime_tz: epoch seconds of an HTTP
\* date, None for a text that is no date.
parsedate_tz(s) == IF s = HttpDate THEN HttpDateEpoch ELSE None

\* What time.time() can read while a request is in flight.
ClockReadings == {HttpDateEpoch - DateLead, HttpDateEpoch + 1}

\* --------------------------------------------------------------- responses
RetryAfterTexts ==
    { << >>,                       \* "Retry-After:" with an empty value
      << "0" >>, << "2" >>,
      << "3", " " >>,              \* trailing whitespace
      << "-", "1" >>,              \* negative
      << "1", ".", "5" >>,         \* decimal
      << "s", "o", "o", "n" >>,    \* non-numeric text
      << SuperscriptTwo >>,
      HttpDate }

HeaderSets == {{}} \cup {{<< "Retry-After", t >>} : t \in RetryAfterTexts}
Statuses == {200, 429, 500, 503}
Responses == [status : Statuses, headers : HeaderSets]

\* A transport attempt ends in a response or in a transport failure: a
\* connection that could not be established, or one that broke after the
\* request was started.
TransportErrors == {"ConnectTimeoutError", "ProtocolError"}
Outcomes ==
    [error : {""}, response : Responses]
      \cup [error : TransportErrors, response : {[status |-> 0, headers |-> {}]}]

HasHeader(response, name) == \E p \in response.headers : p[1] = name
HeaderValue(response, name) == (CHOOSE p \in response.headers : p[1] = name)[2]

\* ------------------------------------------- RateLimitedAdapter.get_retry_after
\* int(retry_after) if retry_after and retry_after.isdigit() else None;
\* the int() call raises ValueError on a digit character that is no decimal.
get_retry_after(response) ==
    IF ~HasHeader(response, "Retry-After") THEN None
    ELSE LET retry_after == HeaderValue(response, "Retry-After") IN
         IF Len(retry_after) > 0 /\ isdigit(retry_after)
         THEN int(retry_after) ELSE None

\* ------------------------------------------------------- urllib3's Retry
\* Retry(total=..., backoff_factor=..., status_forcelist=...,
\*       allowed_methods=["HEAD", "GET", "OPTIONS"]); history holds the
\* number of entries of Retry.history (no entry is a redirect: requests
\* calls urlopen with redirect=False).
Retry(total, backoff_factor, status_forcelist) ==
    [total |-> total, backoff_factor |-> backoff_factor,
     status_forcelist |-> status_forcelist, history |-> 0]

is_method_retryable(method) == method \in allowed_methods

\* A retry decision that forgets allowed_methods.
is_retry_any_method(retries, method, status_code, has_retry_after) ==
    IF status_code \in retries.status_forcelist THEN TRUE
    ELSE /\ retries.total # 0
         /\ has_retry_after
         /\ status_code \in RETRY_AFTER_STATUS_CODES

\* Retry.is_retry(method, status_code, has_retry_after), with
\* respect_retry_after_header at its default True.
is_retry(retries, method, status_code, has_retry_after) ==
    IF ~is_method_retryable(method) THEN FALSE
    ELSE IF status_code \in retries.status_forcelist THEN TRUE
    ELSE /\ retries.total # 0
         /\ has_retry_after
         /\ status_code \in RETRY_AFTER_STATUS_CODES

\* A budget test that is off by one: one more retry than total allows.
is_exhausted_late(retries) == retries.total < -1

\* Retry.is_exhausted: the counters that are neither None nor 0, here
\* total alone, have a minimum below 0.
is_exhausted(retries) == retries.total # 0 /\ retries.total < 0

\* The Retry object that Retry.increment builds before it tests exhaustion.
increment(retries) ==
    [retries EXCEPT !.total = @ - 1, !.history = @ + 1]

Min(a, b) == IF a <= b THEN a ELSE b
Max(a, b) == IF a >= b THEN a ELSE b

\* A backoff that already applies to the first retry.
get_backoff_time_from_first(retries) ==
    Min(DEFAULT_BACKOFF_MAX, retries.backoff_factor * (2 ^ (retries.history - 1)))

\* Retry.get_backoff_time
get_backoff_time(retries) ==
    LET consecutive_errors_len == retries.history IN
    IF consecutive_errors_len <= 1 THEN 0
    ELSE Min(DEFAULT_BACKOFF_MAX,
             retries.backoff_factor * (2 ^ (consecutive_errors_len - 1)))

\* Retry.parse_retry_after: delta-seconds, else an HTTP date measured
\* against the clock, else InvalidHeader; never negative.
parse_retry_after(retry_after, now) ==
    IF MatchesDeltaSeconds(retry_after) THEN int(retry_after)
    ELSE IF parsedate_tz(retry_after) = None THEN InvalidHeader
    ELSE Max(parsedate_tz(retry_after) - now, 0)

\* Retry.get_retry_after
Retry_get_retry_after(response, now) ==
    IF ~HasHeader(response, "Retry-After") THEN None
    ELSE parse_retry_after(HeaderValue(response, "Retry-After"), now)

\* Retry._sleep_backoff: the time.sleep calls it makes.
sleep_backoff(retries) ==
    IF get_backoff_time(retries) <= 0 THEN << >>
    ELSE << get_backoff_time(retries) >>

\* A sleep that ignores the Retry-After header.
sleep_backoff_only(retries, hasResponse, response, now) ==
    [raised |-> FALSE, slept |-> sleep_backoff(retries)]

\* Retry.sleep(response): the time.sleep calls it makes, in order, or the
\* exception it ends in. hasResponse is FALSE for the call without argument
\* that follows a transport failure.
sleep(retries, hasResponse, response, now) ==
    LET retry_after == IF hasResponse THEN Retry_get_retry_after(response, now)
                       ELSE None IN
    IF retry_after = InvalidHeader THEN [raised |-> TRUE, slept |-> << >>]
    ELSE IF retry_after > 0 THEN [raised |-> FALSE, slept |-> << retry_after >>]
    ELSE [raised |-> FALSE, slept |-> sleep_backoff(retries)]

\* ------------------------------------ one pass of urllib3's urlopen loop
\* What HTTPAdapter.send (requests) does with the outcome of one transport
\* attempt: "retry" (urlopen calls itself again after the sleeps), "return"
\* (the response is handed to the caller of HTTPAdapter.send) or "raise"
\* (the requests exception that leaves HTTPAdapter.send).
Retrying(retries, slept) ==
    [kind |-> "retry", retries |-> retries, slept |-> slept, error |-> ""]
Returning(retries) ==
    [kind |-> "return", retries |-> retries, slept |-> << >>, error |-> ""]
Raising(retries, error) ==
    [kind |-> "raise", retries |-> retries, slept |-> << >>, error |-> error]

urlopen(retries, method, outcome, now) ==
    IF outcome.error # "" THEN
        \* a read error on a method that is not retryable is re-raised at once
        IF outcome.error = "ProtocolError" /\ ~is_method_retryable(method)
        THEN Raising(retries, "ConnectionError")
        ELSE IF is_exhausted(increment(retries))
        THEN Raising(retries, "ConnectionError")
        ELSE Retrying(increment(retries),
                      sleep(increment(retries), FALSE, outcome.response, now).slept)
    ELSE
        LET response == outcome.response
            has_retry_after == /\ HasHeader(response, "Retry-After")
                               /\ Len(HeaderValue(response, "Retry-After")) > 0
        IN
        IF ~is_retry(retries, method, response.status, has_retry_after)
        THEN Returning(retries)
        ELSE IF is_exhausted(increment(retries))
        THEN Raising(retries, "RetryError")     \* raise_on_status is True
        ELSE LET s == sleep(increment(retries), TRUE, response, now) IN
             IF s.raised THEN Raising(increment(retries), "InvalidHeader")
             ELSE Retrying(increment(retries), s.slept)

\* ------------------------------------------------------------------- state
VARIABLES
    total_retries,      \* HTTPSessionManager.total_retries
    backoff_factor,     \* HTTPSessionManager.backoff_factor
    status_forcelist,   \* HTTPSessionManager.status_forcelist
    session,            \* HTTPSessionManager.session
    created,            \* number of requests.Session objects created so far
    held,               \* the session the caller got from the manager
    pc,                 \* "idle", "sending" (inside RateLimitedAdapter.send), "done"
    method,             \* method of the request in flight
    call,               \* which super().send of RateLimitedAdapter.send runs: 1 or 2
    retries,            \* the Retry object of the running urlopen loop
    sends,              \* transport attempts made for the request in flight
    last,               \* outcome of the latest transport attempt
    slept,              \* the time.sleep calls made after it, before the re-send
    result,             \* what the caller of session.request gets
    run,                \* history: the outcomes so far, while they repeat the first
    threads,            \* the callers that use the manager from threads of their own
    closed,             \* ids of the sessions on which close() was called
    calls,              \* history of the get_session / setup_session calls of the threads
    dto,                \* a record of src/model/bronze.py
    dto_back            \* what from_dict(to_dict()) made of it

vars == << total_retries, backoff_factor, status_forcelist, session, created,
           held, pc, method, call, retries, sends, last, slept, result, run,
           threads, closed, calls, dto, dto_back >>

\* What the single caller of Spec leaves alone.
thread_vars == << threads, closed, calls >>
dto_vars == << dto, dto_back >>

manager == << total_retries, backoff_factor, status_forcelist >>

Methods == {"GET", "POST"}
TotalRetriesValues == 0..MaxRetries \cup {DefaultTotalRetries}
BackoffFactors == {0, DefaultBackoffFactor, BigBackoffFactor}
StatusForcelists == {DefaultStatusForcelist, {500}}

\* self.session = None; a session object is its identity and the Retry
\* policy of the adapter mounted on it.
NoSession == [id |-> 0, max_retries |-> Retry(0, 0, {})]

NoOutcome == [error |-> "none", response |-> [status |-> 0, headers |-> {}]]
NoResult == [kind |-> "none", error |-> "", response |-> [status |-> 0, headers |-> {}]]
Returned(response) == [kind |-> "returned", error |-> "", response |-> response]
Raised(error) ==
    [kind |-> "raised", error |-> error, response |-> [status |-> 0, headers |-> {}]]

\* run.first is the outcome of the first attempt, run.lead the number of
\* leading attempts with that outcome and run.waits the seconds slept
\* before each re-send. The record is kept while the attempts so far are
\* run.lead copies of run.first followed by at most one other outcome
\* (which is then last); any other history is BrokenRun.
NoRun == [first |-> NoOutcome, lead |-> 0, waits |-> << >>, broken |-> FALSE]
BrokenRun == [first |-> NoOutcome, lead |-> 0, waits |-> << >>, broken |-> TRUE]

RECURSIVE Sum(_)
Sum(s) == IF Len(s) = 0 THEN 0 ELSE Head(s) + Sum(Tail(s))

\* A caller thread: where it is in get_session / setup_session or in a
\* request, the session it holds, and the state of its request (as pc,
\* method, call, retries, sends, slept and result of the single caller).
\* via is the method it called on the manager; asleep and after_close are
\* history: whether the request started while another thread was in the
\* sleep before a re-send and has run within that sleep since, and whether
\* it started on a session that was closed.
Threads == {"t1", "t2"}
IdleThread ==
    [pc |-> "idle", via |-> "", held |-> NoSession, method |-> "GET", call |-> 1,
     retries |-> NoSession.max_retries, sends |-> 0, slept |-> << >>,
     result |-> "", asleep |-> FALSE, after_close |-> FALSE]
NoCalls == [overlapped |-> FALSE, explicit |-> FALSE]
NoDto == [kind |-> "none"]

\* HTTPSessionManager.__init__: the three attributes and session = None.
Init ==
    /\ total_retries \in TotalRetriesValues
    /\ backoff_factor \in BackoffFactors
    /\ status_forcelist \in StatusForcelists
    /\ session = NoSession
    /\ created = 0
    /\ held = NoSession
    /\ pc = "idle"
    /\ method = "GET"
    /\ call = 1
    /\ retries = NoSession.max_retries
    /\ sends = 0
    /\ last = NoOutcome
    /\ slept = << >>
    /\ result = NoResult
    /\ run = NoRun
    /\ threads = [t \in Threads |-> IdleThread]
    /\ closed = {}
    /\ calls = NoCalls
    /\ dto = NoDto
    /\ dto_back = NoDto

request_vars == << pc, method, call, retries, sends, last, slept, result, run >>

\* A session whose adapter gets the default policy instead of the manager's.
NewSessionWithDefaults ==
    [id |-> created + 1,
     max_retries |-> Retry(DefaultTotalRetries, DefaultBackoffFactor,
                           DefaultStatusForcelist)]

\* The session object that setup_session builds and mounts the adapter on.
NewSession ==
    [id |-> created + 1,
     max_retries |-> Retry(total_retries, backoff_factor, status_forcelist)]

\* HTTPSessionManager.setup_session
setup_session ==
    /\ pc = "idle"
    /\ created < MaxSessions
    /\ session' = NewSession
    /\ created' = created + 1
    /\ held' = NewSession
    /\ UNCHANGED << manager, request_vars, thread_vars, dto_vars >>

\* HTTPSessionManager.get_session
get_session ==
    /\ pc = "idle"
    /\ IF session.id = 0
       THEN /\ created < MaxSessions
            /\ session' = NewSession
            /\ created' = created + 1
            /\ held' = NewSession
       ELSE /\ held' = session
            /\ held # session
            /\ UNCHANGED << session, created >>
    /\ UNCHANGED << manager, request_vars, thread_vars, dto_vars >>

\* session.request(method, url): the session hands the prepared request to
\* RateLimitedAdapter.send, whose first super().send starts a urlopen loop
\* with the adapter's max_retries.
request ==
    /\ pc = "idle"
    /\ held.id # 0
    /\ \E m \in Methods : method' = m
    /\ pc' = "sending"
    /\ call' = 1
    /\ retries' = held.max_retries
    /\ sends' = 0
    /\ last' = NoOutcome
    /\ slept' = << >>
    /\ result' = NoResult
    /\ run' = NoRun
    /\ UNCHANGED << manager, session, created, held, thread_vars, dto_vars >>

\* An adapter that re-sends after every 429 with Retry-After, also after
\* the response of its second super().send.
adapter_send_again(response) ==
    LET retry_after == get_retry_after(response) IN
    IF retry_after = ValueError
    THEN [kind |-> "raise", error |-> "ValueError", slept |-> << >>]
    ELSE IF response.status = 429 /\ retry_after > 0
    THEN [kind |-> "resend", error |-> "", slept |-> << retry_after >>]
    ELSE [kind |-> "return", error |-> "", slept |-> << >>]

\* RateLimitedAdapter.send from the return of a super().send on: what the
\* adapter does with the response of its first or second super().send.
\* "resend" is the sleep followed by the second super().send.
\* nth tells which of its two super().send calls returned the response.
adapter_send_on(nth, response) ==
    IF nth = 2 THEN [kind |-> "return", error |-> "", slept |-> << >>]
    ELSE LET retry_after == get_retry_after(response) IN
         IF retry_after = ValueError
         THEN [kind |-> "raise", error |-> "ValueError", slept |-> << >>]
         ELSE IF response.status = 429 /\ retry_after > 0
         THEN [kind |-> "resend", error |-> "", slept |-> << retry_after >>]
         ELSE [kind |-> "return", error |-> "", slept |-> << >>]

adapter_send(response) == adapter_send_on(call, response)

\* The history after an attempt with the given outcome; resent tells
\* whether a re-send follows it, after sleeps of waited seconds.
NextRun(outcome, resent, waited) ==
    LET lead == IF sends = 0 \/ (run.lead = sends /\ outcome = run.first)
                THEN sends + 1 ELSE run.lead
        first == IF sends = 0 THEN outcome ELSE run.first
    IN
    IF run.broken \/ run.lead < sends THEN BrokenRun
    ELSE [first |-> first, lead |-> lead, broken |-> FALSE,
          waits |-> IF resent THEN Append(run.waits, Sum(waited)) ELSE run.waits]

Resend(outcome, nextCall, nextRetries, waited) ==
    /\ pc' = "sending"
    /\ call' = nextCall
    /\ retries' = nextRetries
    /\ last' = outcome
    /\ slept' = waited
    /\ result' = NoResult
    /\ run' = NextRun(outcome, TRUE, waited)

End(outcome, res) ==
    /\ pc' = "done"
    /\ result' = res
    /\ last' = outcome
    /\ slept' = << >>
    /\ run' = NextRun(outcome, FALSE, << >>)
    /\ UNCHANGED << call, retries >>

\* One transport attempt inside RateLimitedAdapter.send and everything the
\* code does with its outcome.
attempt ==
    /\ pc = "sending"
    /\ sends' = sends + 1
    /\ \E outcome \in Outcomes, now \in ClockReadings :
         LET u == urlopen(retries, method, outcome, now)
             a == adapter_send(outcome.response)
         IN
         CASE u.kind = "retry" -> Resend(outcome, call, u.retries, u.slept)
           [] u.kind = "raise" -> End(outcome, Raised(u.error))
           [] u.kind = "return" /\ a.kind = "resend" ->
                Resend(outcome, 2, held.max_retries, a.slept)
           [] u.kind = "return" /\ a.kind = "raise" ->
                End(outcome, Raised(a.error))
           [] u.kind = "return" /\ a.kind = "return" ->
                End(outcome, Returned(outcome.response))
    /\ UNCHANGED << manager, session, created, held, method, thread_vars, dto_vars >>

\* The caller takes the response or the exception; the next request may start.
deliver ==
    /\ pc = "done"
    /\ pc' = "idle"
    /\ call' = 1
    /\ retries' = NoSession.max_retries
    /\ sends' = 0
    /\ result' = NoResult
    /\ run' = NoRun
    /\ method' = "GET"
    /\ last' = NoOutcome
    /\ UNCHANGED << manager, session, created, held, slept, thread_vars, dto_vars >>

Next ==
    \/ setup_session
    \/ get_session
    \/ request
    \/ attempt
    \/ deliver

Spec == Init /\ [][Next]_vars

\* __init__ stores whatever it is given: the same machine started from
\* managers built with values at and below the edge of the valid range.
AnyTotalRetries == {-1, 0, 1}
AnyBackoffFactors == {-1, 0, 1}

InitAnyConfig ==
    /\ total_retries \in AnyTotalRetries
    /\ backoff_factor \in AnyBackoffFactors
    /\ status_forcelist \in StatusForcelists
    /\ session = NoSession
    /\ created = 0
    /\ held = NoSession
    /\ pc = "idle"
    /\ method = "GET"
    /\ call = 1
    /\ retries = NoSession.max_retries
    /\ sends = 0
    /\ last = NoOutcome
    /\ slept = << >>
    /\ result = NoResult
    /\ run = NoRun
    /\ threads = [t \in Threads |-> IdleThread]
    /\ closed = {}
    /\ calls = NoCalls
    /\ dto = NoDto
    /\ dto_back = NoDto

SpecAnyConfig == InitAnyConfig /\ [][Next]_vars

TypeOK ==
    /\ sends \in 0..(2 * (DefaultTotalRetries + MaxRetries + 2))
    /\ pc \in {"idle", "sending", "done"}
    /\ call \in {1, 2}

\* ------------------------------------------- the manager used by threads
\* Nothing in HttpSessionManager.py takes a lock, so a thread may be
\* anywhere in a method while another runs: get_session is its check
\* (line 81), setup_session (lines 67-77) and its return (line 83).
single_vars ==
    << held, pc, method, call, retries, sends, last, slept, result, run >>

Inside(t) == threads[t].pc \in {"check", "assign", "return"}

\* The calls history after thread t enters a method of the manager.
Entered(t, explicit) ==
    [overlapped |-> calls.overlapped \/ \E u \in Threads \ {t} : Inside(u),
     explicit |-> calls.explicit \/ explicit]

\* A thread calls manager.get_session().
t_get_session(t) ==
    /\ threads[t].pc = "idle"
    /\ threads' = [threads EXCEPT ![t].pc = "check", ![t].via = "get_session"]
    /\ calls' = Entered(t, FALSE)
    /\ UNCHANGED << manager, session, created, single_vars, closed, dto_vars >>

\* A thread calls manager.setup_session() itself.
t_setup_session(t) ==
    /\ threads[t].pc = "idle"
    /\ threads' = [threads EXCEPT ![t].pc = "assign", ![t].via = "setup_session"]
    /\ calls' = Entered(t, TRUE)
    /\ UNCHANGED << manager, session, created, single_vars, closed, dto_vars >>

\* A check that never finds a session.
no_session_ever == TRUE

\* not self.session
no_session == session.id = 0

\* get_session, line 81: if not self.session
t_check(t) ==
    /\ threads[t].pc = "check"
    /\ threads' = [threads EXCEPT
                     ![t].pc = IF no_session THEN "assign" ELSE "return"]
    /\ UNCHANGED << manager, session, created, single_vars, closed, calls,
                    dto_vars >>

\* setup_session, lines 67-77: a new requests.Session in self.session, with
\* the adapter mounted on it.
t_assign(t) ==
    /\ threads[t].pc = "assign"
    /\ created < MaxSessions
    /\ session' = NewSession
    /\ created' = created + 1
    /\ threads' = [threads EXCEPT ![t].pc = "return"]
    /\ UNCHANGED << manager, single_vars, closed, calls, dto_vars >>

\* get_session, line 83: return self.session (the caller of setup_session
\* reads manager.session).
t_return(t) ==
    /\ threads[t].pc = "return"
    /\ threads' = [threads EXCEPT ![t].pc = "idle", ![t].via = "",
                                  ![t].held = session]
    /\ UNCHANGED << manager, session, created, single_vars, closed, calls,
                    dto_vars >>

NextSessions ==
    \E t \in Threads :
        \/ t_get_session(t)
        \/ t_setup_session(t)
        \/ t_check(t)
        \/ t_assign(t)
        \/ t_return(t)

SpecSessions == Init /\ [][NextSessions]_vars

\* ------------------------------------- requests of threads on one session
\* The manager after one get_session, whose session every thread was given.
InitConcurrent ==
    /\ total_retries \in 0..MaxRetries
    /\ backoff_factor = DefaultBackoffFactor
    /\ status_forcelist = DefaultStatusForcelist
    /\ session = [id |-> 1,
                  max_retries |-> Retry(total_retries, backoff_factor,
                                        status_forcelist)]
    /\ created = 1
    /\ held = NoSession
    /\ pc = "idle"
    /\ method = "GET"
    /\ call = 1
    /\ retries = NoSession.max_retries
    /\ sends = 0
    /\ last = NoOutcome
    /\ slept = << >>
    /\ result = NoResult
    /\ run = NoRun
    /\ threads = [t \in Threads |-> [IdleThread EXCEPT !.held = session]]
    /\ closed = {}
    /\ calls = NoCalls
    /\ dto = NoDto
    /\ dto_back = NoDto

concurrent_unchanged ==
    << manager, session, created, single_vars, calls, dto_vars >>

\* Another thread is in the sleep before a re-send on the session of t.
PeerSleeps(t) ==
    \E u \in Threads \ {t} :
        threads[u].pc = "sleeping" /\ threads[u].held = threads[t].held

\* requests.Session.close() on the session the thread holds.
t_close(t) ==
    /\ threads[t].pc = "idle"
    /\ threads[t].held.id # 0
    /\ threads[t].held.id \notin closed
    /\ closed' = closed \cup {threads[t].held.id}
    /\ UNCHANGED << concurrent_unchanged, threads >>

\* session.request(method, url) in a thread.
t_request(t) ==
    /\ threads[t].pc = "idle"
    /\ threads[t].held.id # 0
    /\ \E m \in Methods :
         threads' = [threads EXCEPT ![t] =
                        [@ EXCEPT !.pc = "sending", !.method = m, !.call = 1,
                                  !.retries = threads[t].held.max_retries,
                                  !.sends = 0, !.slept = << >>, !.result = "",
                                  !.asleep = PeerSleeps(t),
                                  !.after_close = threads[t].held.id \in closed]]
    /\ UNCHANGED << concurrent_unchanged, closed >>

\* A transport attempt that waits for the sleep of every other thread.
sending_under_lock(t) ==
    /\ threads[t].pc = "sending"
    /\ \A u \in Threads \ {t} : threads[u].pc # "sleeping"

\* The thread is in super().send, about to make a transport attempt.
sending(t) == threads[t].pc = "sending"

\* The thread after a transport attempt that is followed by a re-send:
\* in time.sleep when there are seconds to wait.
t_resend(self, nextCall, nextRetries, waited) ==
    [self EXCEPT !.pc = IF Sum(waited) > 0 THEN "sleeping" ELSE "sending",
                 !.call = nextCall, !.retries = nextRetries,
                 !.slept = waited, !.sends = @ + 1]

t_end(self, kind) ==
    [self EXCEPT !.pc = "done", !.result = kind, !.slept = << >>,
                 !.sends = @ + 1]

\* One transport attempt of a thread inside RateLimitedAdapter.send, up to
\* the sleep or the end of the request.
t_attempt(t) ==
    /\ sending(t)
    /\ \E outcome \in Outcomes, now \in ClockReadings :
         LET self == threads[t]
             u == urlopen(self.retries, self.method, outcome, now)
             a == adapter_send_on(self.call, outcome.response)
         IN
         threads' = [threads EXCEPT ![t] =
             CASE u.kind = "retry" -> t_resend(self, self.call, u.retries, u.slept)
               [] u.kind = "raise" -> t_end(self, "raised")
               [] u.kind = "return" /\ a.kind = "resend" ->
                    t_resend(self, 2, self.held.max_retries, a.slept)
               [] u.kind = "return" /\ a.kind = "raise" -> t_end(self, "raised")
               [] u.kind = "return" /\ a.kind = "return" ->
                    t_end(self, "returned")]
    /\ UNCHANGED << concurrent_unchanged, closed >>

\* time.sleep returns in a thread; the requests that started during this
\* sleep are no longer within it.
t_wake(t) ==
    /\ threads[t].pc = "sleeping"
    /\ threads' = [u \in Threads |->
                     IF u = t THEN [threads[u] EXCEPT !.pc = "sending"]
                     ELSE [threads[u] EXCEPT !.asleep = FALSE]]
    /\ UNCHANGED << concurrent_unchanged, closed >>

\* The thread takes the response or the exception of its request.
t_deliver(t) ==
    /\ threads[t].pc = "done"
    /\ threads' = [threads EXCEPT ![t] = [IdleThread EXCEPT !.held = threads[t].held]]
    /\ UNCHANGED << concurrent_unchanged, closed >>

NextConcurrent ==
    \E t \in Threads :
        \/ t_close(t)
        \/ t_request(t)
        \/ t_attempt(t)
        \/ t_wake(t)
        \/ t_deliver(t)

SpecConcurrent == InitConcurrent /\ [][NextConcurrent]_vars

\* ------------------------------------------------- src/model/bronze.py
\* A dict is a function from its keys; data.get(key, default).
Get(data, key, default) == IF key \in DOMAIN data THEN data[key] ELSE default

\* None where a text is expected.
NoneText == "<None>"
Texts == {"a", "b"}
Numbers == {0, 1}

SeriesFields ==
    {"series_id", "name", "start_date", "end_date", "odi", "t20", "test",
     "squads", "matches"}
SeriesRecords ==
    [series_id : Texts, name : Texts, start_date : Texts, end_date : Texts,
     odi : Numbers, t20 : Numbers, test : Numbers, squads : Numbers,
     matches : Numbers]
ScoreFields == {"r", "w", "o", "inning"}
ScoreRecords == [r : Numbers, w : Numbers, o : Numbers, inning : Texts]
PlayersFields == {"player_id", "name", "country"}
PlayersRecords == [player_id : Texts, name : Texts, country : Texts]

\* dataclasses.asdict: one key per field, named as the field.
asdict(fields, x) == [k \in fields |-> x[k]]

\* Series.to_dict / Series.from_dict
Series_to_dict(x) == asdict(SeriesFields, x)
Series_from_dict(data) ==
    [series_id |-> Get(data, "id", NoneText),
     name |-> Get(data, "name", NoneText),
     start_date |-> Get(data, "startDate", NoneText),
     end_date |-> Get(data, "endDate", NoneText),
     odi |-> Get(data, "odi", 0),
     t20 |-> Get(data, "t20", 0),
     test |-> Get(data, "test", 0),
     squads |-> Get(data, "squads", 0),
     matches |-> Get(data, "matches", 0)]

\* Score.to_dict / Score.from_dict
Score_to_dict(x) == asdict(ScoreFields, x)
Score_from_dict(data) ==
    [r |-> Get(data, "r", None),
     w |-> Get(data, "w", None),
     o |-> Get(data, "o", None),
     inning |-> Get(data, "inning", NoneText)]

\* Players.to_dict / Players.from_dict
Players_to_dict(x) == asdict(PlayersFields, x)
Players_from_dict(data) ==
    [player_id |-> Get(data, "id", NoneText),
     name |-> Get(data, "name", NoneText),
     country |-> Get(data, "country", NoneText)]

Dto(kind, x) == [kind |-> kind, x |-> x]

other_vars ==
    << total_retries, backoff_factor, status_forcelist, session, created,
       held, pc, method, call, retries, sends, last, slept, result, run,
       threads, closed, calls >>

\* Init with a record of one of the three classes in hand.
InitDto ==
    /\ total_retries = DefaultTotalRetries
    /\ backoff_factor = DefaultBackoffFactor
    /\ status_forcelist = DefaultStatusForcelist
    /\ session = NoSession
    /\ created = 0
    /\ held = NoSession
    /\ pc = "idle"
    /\ method = "GET"
    /\ call = 1
    /\ retries = NoSession.max_retries
    /\ sends = 0
    /\ last = NoOutcome
    /\ slept = << >>
    /\ result = NoResult
    /\ run = NoRun
    /\ threads = [t \in Threads |-> IdleThread]
    /\ closed = {}
    /\ calls = NoCalls
    /\ dto \in {Dto("Series", x) : x \in SeriesRecords}
                \cup {Dto("Score", x) : x \in ScoreRecords}
                \cup {Dto("Players", x) : x \in PlayersRecords}
    /\ dto_back = NoDto

\* Series.from_dict(x.to_dict())
series_round_trip ==
    /\ dto.kind = "Series"
    /\ dto_back = NoDto
    /\ dto_back' = Dto("Series", Series_from_dict(Series_to_dict(dto.x)))
    /\ UNCHANGED << other_vars, dto >>

\* Score.from_dict(x.to_dict())
score_round_trip ==
    /\ dto.kind = "Score"
    /\ dto_back = NoDto
    /\ dto_back' = Dto("Score", Score_from_dict(Score_to_dict(dto.x)))
    /\ UNCHANGED << other_vars, dto >>

\* Players.from_dict(x.to_dict())
players_round_trip ==
    /\ dto.kind = "Players"
    /\ dto_back = NoDto
    /\ dto_back' = Dto("Players", Players_from_dict(Players_to_dict(dto.x)))
    /\ UNCHANGED << other_vars, dto >>

NextDto ==
    \/ series_round_trip
    \/ score_round_trip
    \/ players_round_trip

SpecDto == InitDto /\ [][NextDto]_vars

\* ------------------------------------------------------ reading the state
IsResponse(outcome) == outcome.error = ""
Plain(status) == [error |-> "", response |-> [status |-> status, headers |-> {}]]
WithRetryAfter(status, text) ==
    [error |-> "",
     response |-> [status |-> status, headers |-> {<< "Retry-After", text >>}]]

\* Every attempt of the request in flight had the same outcome.
AllSame == ~run.broken /\ sends >= 1 /\ run.lead = sends

\* ------------------------------------------------------------------ claims

C2_PostNeverResentOnResponse ==
    ~(pc = "sending" /\ method = "POST" /\ sends >= 1 /\ IsResponse(last))

C4_ExhaustedBudgetReturnsLastResponse ==
    (pc = "done" /\ method = "GET" /\ AllSame /\ run.first = Plain(500)
       /\ 500 \in status_forcelist /\ total_retries >= 1) =>
        result = Returned(Plain(500).response)

\* The latest outcome is a 429 response whose Retry-After header is a
\* non-negative integer number of seconds.
Last429WithSeconds ==
    /\ IsResponse(last)
    /\ last.response.status = 429
    /\ HasHeader(last.response, "Retry-After")
    /\ MatchesDeltaSeconds(HeaderValue(last.response, "Retry-After"))

\* C5: when a re-send follows a 429 response whose Retry-After header is a
\* non-negative integer n (0 included), the wait before the re-send is
\* exactly n seconds, whatever the attempt number and backoff_factor.
C5_RetryAfterWaitIsExact ==
    (pc = "sending" /\ sends >= 1 /\ Last429WithSeconds) =>
        Sum(slept) = int(HeaderValue(last.response, "Retry-After"))

\* C6: no re-send follows a response whose status code is not in
\* status_forcelist (in particular a 429 with Retry-After when 429 is not
\* in status_forcelist).
C6_OnlyForcelistStatusesResent ==
    (pc = "sending" /\ sends >= 1 /\ IsResponse(last)) =>
        last.response.status \in status_forcelist

\* C7: between two consecutive sends exactly one wait is applied, never
\* two: the Retry-After value when the previous response was a 429 with a
\* header that parses as a non-negative integer, and the backoff value in
\* every other case.
C7_OneWaitHeaderFirst ==
    (pc = "sending" /\ sends >= 1) =>
        /\ Len(slept) <= 1
        /\ Sum(slept) = IF Last429WithSeconds
                        THEN int(HeaderValue(last.response, "Retry-After"))
                        ELSE get_backoff_time(retries)

\* C8: with total_retries = 5, a GET that gets 429 with "Retry-After: 2"
\* on its first three sends and a 200 on the fourth is re-sent after each
\* of the three 429, each time after a wait of exactly 2 seconds, is not
\* sent a fifth time, and returns the 200.
C8_ThreeRateLimitsThenSuccess ==
    (pc # "idle" /\ method = "GET" /\ total_retries = DefaultTotalRetries
       /\ ~run.broken /\ run.first = WithRetryAfter(429, << "2" >>)) =>
        /\ (run.lead = sends /\ sends \in 1..3) =>
              /\ pc = "sending"
              /\ slept = << 2 >>
              /\ run.waits = [i \in 1..sends |-> 2]
        /\ (run.lead = 3 /\ sends = 4 /\ last = Plain(200)) =>
              /\ pc = "done"
              /\ result = Returned(Plain(200).response)
              /\ run.waits = << 2, 2, 2 >>

\* The end of that scenario.
C8_Witness ==
    /\ pc = "done"
    /\ method = "GET"
    /\ total_retries = DefaultTotalRetries
    /\ ~run.broken
    /\ run.first = WithRetryAfter(429, << "2" >>)
    /\ run.lead = 3
    /\ sends = 4
    /\ last = Plain(200)

\* The latest outcome is a response with a status other than 429 and no
\* Retry-After header.
LastPlainNon429 ==
    /\ IsResponse(last)
    /\ last.response.status # 429
    /\ ~HasHeader(last.response, "Retry-After")

\* The GET scenario of C9: total_retries >= 2, backoff_factor = 1,
\* responses 500, 500, 200.
C9_Scenario ==
    /\ pc # "idle"
    /\ method = "GET"
    /\ total_retries >= 2
    /\ backoff_factor = DefaultBackoffFactor
    /\ ~run.broken
    /\ run.first = Plain(500)
    /\ run.lead = 2
    /\ sends = 3
    /\ last = Plain(200)

Last429WithoutSeconds ==
    /\ IsResponse(last)
    /\ last.response.status = 429
    /\ ~Last429WithSeconds

\* C10: a 429 response whose Retry-After header is absent or is not an
\* integer number of seconds is handled as one without the header: a
\* re-send that follows it waits the backoff delay only, and the request
\* ends as it would without the header, with the response returned or with
\* the retry budget used up.
C10_UnparseableRetryAfterIsAbsent ==
    /\ (pc = "sending" /\ sends >= 1 /\ Last429WithoutSeconds) =>
           slept = sleep_backoff(retries)
    /\ (pc = "done" /\ Last429WithoutSeconds) =>
           result \in {Returned(last.response), Raised("RetryError")}

\* C11: no manager built with maxAttempts (total_retries) < 1 or with
\* backoff_factor < 0 ever has a session or sends a request.
C11_InvalidConfigNeverUsed ==
    (total_retries < 1 \/ backoff_factor < 0) => (session.id = 0 /\ sends = 0)

\* C14: no step changes total_retries, backoff_factor or status_forcelist,
\* and after every step the session, the session the caller holds and the
\* request in flight carry the policy given at construction.
C14_ConfigFixedAtConstruction ==
    [][/\ manager' = manager
       /\ session'.id # 0 =>
            session'.max_retries =
                Retry(total_retries, backoff_factor, status_forcelist)
       /\ held'.id # 0 =>
            held'.max_retries =
                Retry(total_retries, backoff_factor, status_forcelist)
       /\ pc' = "sending" =>
            /\ retries'.backoff_factor = backoff_factor
            /\ retries'.status_forcelist = status_forcelist
            /\ retries'.total + retries'.history = total_retries]_vars

\* A request in flight, after a retry, on the second session of a manager.
C14_Witness ==
    /\ pc = "sending"
    /\ sends >= 2
    /\ retries.history >= 1
    /\ created = 2
    /\ held = session

\* The given response makes RateLimitedAdapter.send sleep and re-send:
\* status 429 and a Retry-After header that is a digit string with a
\* positive value.
RateLimited(response) ==
    /\ response.status = 429
    /\ HasHeader(response, "Retry-After")
    /\ isdigit(HeaderValue(response, "Retry-After"))
    /\ int(HeaderValue(response, "Retry-After")) > 0

\* C16: a super().send starts (a urlopen loop with an empty history) only
\* at the entry of RateLimitedAdapter.send and, at most once more, right
\* after a first super().send that returned a 429 with a positive digit
\* Retry-After, after one sleep of exactly that many seconds; the response
\* of the second super().send is returned whatever it is, and the response
\* of the first is returned only when it does not ask for that re-send.
C16_AtMostOneResendBySend ==
    [][/\ (pc' = "sending" /\ retries'.history = 0) =>
            \/ pc = "idle" /\ call' = 1 /\ sends' = 0 /\ slept' = << >>
            \/ /\ pc = "sending" /\ call = 1 /\ call' = 2
               /\ IsResponse(last')
               /\ RateLimited(last'.response)
               /\ slept' = << int(HeaderValue(last'.response, "Retry-After")) >>
       /\ (pc = "sending" /\ call = 2) => call' = 2
       /\ (pc = "sending" /\ pc' = "done" /\ result'.kind = "returned") =>
            /\ result'.response = last'.response
            /\ call = 1 => ~RateLimited(last'.response)]_vars

\* A request whose second super().send got another 429 with Retry-After,
\* which was returned.
C16_Witness ==
    /\ pc = "done"
    /\ call = 2
    /\ result.kind = "returned"
    /\ RateLimited(result.response)

\* C18: for every Series, Score and Players record x,
\* from_dict(x.to_dict()) equals x.
C18_DictRoundTrip == dto_back # NoDto => dto_back = dto

AllHeldSame ==
    \A t, u \in Threads :
        threads[t].held.id # 0 /\ threads[u].held.id # 0
            => threads[t].held = threads[u].held

\* C13: as long as the calls of get_session do not overlap and nobody calls
\* setup_session itself, at most one session is ever created (setup_session
\* ran once, in the first call) and every call returned that same session.
C13_SequentialGetSessionCreatesOnce ==
    (~calls.overlapped /\ ~calls.explicit) => (created <= 1 /\ AllHeldSame)

\* Both threads called get_session, one after the other, and got a session.
C13_Witness ==
    /\ ~calls.overlapped
    /\ ~calls.explicit
    /\ \A t \in Threads : threads[t].pc = "idle" /\ threads[t].held.id = 1

\* C17: when threads call get_session at the same time on a manager without
\* a session (and nobody calls setup_session itself), at most one session
\* is created and all callers get the same session.
C17_ConcurrentGetSessionCreatesOnce ==
    ~calls.explicit => (created <= 1 /\ AllHeldSame)

\* C12: while a thread is in the sleep before a re-send, every other thread
\* can go on with its own request on the same session: start it, make its
\* next transport attempt, and take its result.
C12_SleepSuspendsOnlyItsRequest ==
    \A t \in Threads :
        PeerSleeps(t) =>
            /\ threads[t].pc = "idle" => ENABLED t_request(t)
            /\ threads[t].pc = "sending" => ENABLED t_attempt(t)
            /\ threads[t].pc = "done" => ENABLED t_deliver(t)

\* A request that started and got its response within one sleep of the
\* other thread on the same session.
C12_Witness ==
    \E t \in Threads :
        /\ PeerSleeps(t)
        /\ threads[t].asleep
        /\ threads[t].pc = "done"
        /\ threads[t].result = "returned"

\* C15: a request made on a session after its close() fails: it reaches no
\* transport attempt and ends with an exception.
C15_RequestAfterCloseFails ==
    \A t \in Threads :
        threads[t].after_close =>
            /\ threads[t].sends = 0
            /\ threads[t].pc = "done" => threads[t].result = "raised"

====
